---- MODULE Spec2Model ----
(***************************************************************************)
(* The multi-agent question-answering flow of the IKMS RAG system:         *)
(* planning_node, retrieval_node, summarization_node and                   *)
(* verification_node of app/core/agents/agents.py, threaded through a      *)
(* QAState by the pipeline (app/core/agents/graph.py).                     *)
(*                                                                         *)
(* Text is a sequence of symbols.  A symbol is one character, except that  *)
(* the two markers "Plan:" and "Sub-questions:" are one symbol each: no    *)
(* marker overlaps itself or the other one, so every text splits into      *)
(* marker occurrences and other characters in exactly one way, and         *)
(* str.split / `in` on a marker act on the symbols as on the characters.   *)
(* A passage text and a model answer are one symbol each.                  *)
(***************************************************************************)
EXTENDS Integers, Sequences, FiniteSets, TLC

\* ------------------------------------------------------------------ bounds
\* Longest planner response (in symbols) enumerated by SpecParse.
MaxLen == 4
\* Most sub-question lines in a planner response of the pipeline (Spec).
MaxSubQ == 2
\* Most tool calls one retrieval-agent response requests.
MaxToolCalls == 2
\* Most documents in one call of serialize_chunks.
MaxDocs == 2
\* Longest page_content (in characters) of a document.
MaxContent == 3
\* Most messages in the "messages" list handed to an agent.
MaxMessages == 2

\* ------------------------------------------------------------------- text
PlanMarker == "Plan:"
SubQMarker == "Sub-questions:"
Newline == "\n"
Whitespace == {" ", "\n", "\t"}
BulletChars == {"-", " "}
Alphabet == {PlanMarker, SubQMarker, "\n", " ", "\t", "-", "a", "b"}

\* `sep in s`
Contains(s, sep) == \E i \in 1..Len(s) : s[i] = sep

\* s.find(sep) + 1, for a sep that occurs in s
IndexOf(s, sep) == CHOOSE i \in 1..Len(s) : s[i] = sep /\ \A j \in 1..(i - 1) : s[j] # sep

\* s.split(sep): the list of the pieces between the occurrences of sep
RECURSIVE Split(_, _)
Split(s, sep) ==
  IF ~Contains(s, sep) THEN <<s>>
  ELSE LET i == IndexOf(s, sep)
       IN <<SubSeq(s, 1, i - 1)>> \o Split(SubSeq(s, i + 1, Len(s)), sep)

\* s.lstrip(chars)
RECURSIVE LStrip(_, _)
LStrip(s, chars) ==
  IF s # <<>> /\ Head(s) \in chars THEN LStrip(Tail(s), chars) ELSE s

\* s.rstrip(chars)
RECURSIVE RStrip(_, _)
RStrip(s, chars) ==
  IF s # <<>> /\ s[Len(s)] \in chars THEN RStrip(SubSeq(s, 1, Len(s) - 1), chars) ELSE s

\* s.strip(chars); s.strip() is Strip(s, Whitespace)
Strip(s, chars) == RStrip(LStrip(s, chars), chars)

\* every text of at most n symbols
RECURSIVE TextsUpTo(_)
TextsUpTo(n) ==
  IF n = 0 THEN {<<>>}
  ELSE LET shorter == TextsUpTo(n - 1)
       IN shorter \cup {Append(t, c) : t \in {u \in shorter : Len(u) = n - 1}, c \in Alphabet}


\* --------------------------------------------------------------- planner
\* The parsing of planning_node: `plan`.
ParsePlan(content) ==
  IF Contains(content, PlanMarker)
  THEN LET parts == Split(content, PlanMarker)
       IN IF Len(parts) > 1
          THEN Strip(Split(parts[2], SubQMarker)[1], Whitespace)
          ELSE <<>>
  ELSE <<>>

\* One entry of the sub-question list: q.strip("- ").strip()
CleanLine(q) == Strip(Strip(q, BulletChars), Whitespace)

\* The parsing of planning_node: `sub_questions`, before the fallback.
ParseSubQuestions(content) ==
  IF Contains(content, SubQMarker)
  THEN LET parts == Split(content, SubQMarker)
       IN IF Len(parts) > 1
          THEN LET sub_q_part == Strip(parts[2], Whitespace)
                   lines == SelectSeq(Split(sub_q_part, Newline),
                                      LAMBDA q : Strip(q, Whitespace) # <<>>)
               IN [k \in 1..Len(lines) |-> CleanLine(lines[k])]
          ELSE <<>>
  ELSE <<>>

\* Mutation of SubQuestionsOrQuestion: the fallback to the question is dropped.
SubQuestionsNoFallback(sub_questions, question) == sub_questions

\* sub_questions if sub_questions else [question]
SubQuestionsOrQuestion(sub_questions, question) ==
  IF sub_questions # <<>> THEN sub_questions ELSE <<question>>

\* What planning_node returns for the model's response `content`.
planning_node(st, content) ==
  [plan |-> ParsePlan(content),
   sub_questions |-> SubQuestionsOrQuestion(ParseSubQuestions(content), st.question)]


\* ---------------------------------------------------------------- agents
\* The messages exchanged with a chat model.
SystemMessage(content) == [role |-> "system", content |-> content, tool_calls |-> <<>>]
HumanMessage(content) == [role |-> "human", content |-> content, tool_calls |-> <<>>]
AIMessage(content, tool_calls) == [role |-> "ai", content |-> content, tool_calls |-> tool_calls]

\* The two forms of an agent's input_data: a question string, or a dict with
\* the key "messages" (an absent key reads as the empty list).
StrInput(text) == [kind |-> "str", text |-> text, messages |-> <<>>]
DictInput(messages) == [kind |-> "dict", text |-> <<>>, messages |-> messages]

\* The system prompts of the four agents, one symbol each.
PLANNING_AGENT_PROMPT == <<"PLANNING_AGENT_PROMPT">>
RETRIEVAL_SYSTEM_PROMPT == <<"RETRIEVAL_SYSTEM_PROMPT">>
SUMMARIZATION_SYSTEM_PROMPT == <<"SUMMARIZATION_SYSTEM_PROMPT">>
VERIFICATION_SYSTEM_PROMPT == <<"VERIFICATION_SYSTEM_PROMPT">>

\* Mutation of InvokeMessages: the system prompt is left out for a message list.
InvokeMessagesBare(system_prompt, input_data) ==
  IF input_data.kind = "str"
  THEN <<SystemMessage(system_prompt), HumanMessage(input_data.text)>>
  ELSE input_data.messages

\* invoke of create_agent: the messages handed to model.invoke
InvokeMessages(system_prompt, input_data) ==
  IF input_data.kind = "str"
  THEN <<SystemMessage(system_prompt), HumanMessage(input_data.text)>>
  ELSE <<SystemMessage(system_prompt)>> \o input_data.messages

\* Mutation of AinvokeMessages: a question string is sent without the prompt.
AinvokeMessagesBare(system_prompt, input_data) ==
  IF input_data.kind = "str"
  THEN <<HumanMessage(input_data.text)>>
  ELSE <<SystemMessage(system_prompt)>> \o input_data.messages

\* ainvoke of create_agent: the messages handed to model.ainvoke
AinvokeMessages(system_prompt, input_data) ==
  IF input_data.kind = "str"
  THEN <<SystemMessage(system_prompt), HumanMessage(input_data.text)>>
  ELSE <<SystemMessage(system_prompt)>> \o input_data.messages

\* invoke of create_agent: what it returns when the model answers `result`
AgentInvoke(system_prompt, input_data, result) ==
  [messages |-> InvokeMessages(system_prompt, input_data) \o <<result>>]

\* ainvoke of create_agent: what it returns when the model answers `result`
AgentAinvoke(system_prompt, input_data, result) ==
  [messages |-> AinvokeMessages(system_prompt, input_data) \o <<result>>]

\* _extract_last_ai_content(messages)
RECURSIVE ExtractLastAIContent(_)
ExtractLastAIContent(messages) ==
  IF messages = <<>> THEN <<>>
  ELSE IF messages[Len(messages)].role = "ai" THEN messages[Len(messages)].content
  ELSE ExtractLastAIContent(SubSeq(messages, 1, Len(messages) - 1))


\* ------------------------------------------------------------ serializer
\* serialize_chunks([]): the serializer's text for "no passage"
NoRelevantContextFound == "No relevant context found."

\* The page numbers of the documents; a loader counts pages from 0.
Pages == {0}

\* The metadata of a document: with and without a page.
Metadatas == {[source |-> "f.pdf"]} \cup {[source |-> "f.pdf", page |-> p] : p \in Pages}

\* The characters of a page_content.
ContentChars == {"a", "\n"}

RECURSIVE ContentsUpTo(_)
ContentsUpTo(n) ==
  IF n = 0 THEN {<<>>}
  ELSE LET shorter == ContentsUpTo(n - 1)
       IN shorter \cup {Append(t, c) : t \in {u \in shorter : Len(u) = n - 1},
                                        c \in ContentChars}

\* langchain_core.documents.Document
Documents == [page_content : ContentsUpTo(MaxContent), metadata : Metadatas]

\* The arguments of serialize_chunks: lists of at most MaxDocs documents.
DocLists == UNION {[1..n -> Documents] : n \in 0..MaxDocs}

\* s.replace(old, new), old and new one character each
Replace(s, old, new) == [k \in 1..Len(s) |-> IF s[k] = old THEN new ELSE s[k]]

\* Mutation of PageOf: doc.metadata.get("page") or "unknown"
PageOrUnknown(doc) ==
  IF "page" \in DOMAIN doc.metadata /\ doc.metadata.page # 0
  THEN ToString(doc.metadata.page)
  ELSE "unknown"

\* page = doc.metadata.get("page", "unknown"), as the f-string formats it
PageOf(doc) ==
  IF "page" \in DOMAIN doc.metadata THEN ToString(doc.metadata.page) ELSE "unknown"

\* Mutation of ChunkContent: the newlines of the content are kept.
ChunkContentRaw(doc) == Strip(doc.page_content, Whitespace)

\* content = doc.page_content.replace("\n", " ").strip()
ChunkContent(doc) == Strip(Replace(doc.page_content, "\n", " "), Whitespace)

\* f"Chunk {i} (page={page}): {content}"
ChunkText(i, doc) ==
  <<"Chunk ", ToString(i), " (page=", PageOf(doc), "): ">> \o ChunkContent(doc)

\* "\n\n".join(parts), character by character
RECURSIVE JoinParts(_)
JoinParts(parts) ==
  IF parts = <<>> THEN <<>>
  ELSE IF Len(parts) = 1 THEN parts[1]
  ELSE parts[1] \o <<Newline, Newline>> \o JoinParts(Tail(parts))

\* serialize_chunks(docs)
serialize_chunks(ds) ==
  IF ds = <<>> THEN <<NoRelevantContextFound>>
  ELSE JoinParts([i \in 1..Len(ds) |-> ChunkText(i, ds[i])])


\* ----------------------------------------------------------------- state
VARIABLES
  request,          \* the question run_qa_flow was called with
  state,            \* the QAState of the request: field name -> value
  pc,               \* the stage the pipeline is at, or "done" / "failed"
  active,           \* TRUE while the node of stage pc is executing
  planner_content,  \* planning_node's `content` (the planner's last response)
  tasks,            \* retrieval_node: one process_question task per sub-question
  completion,       \* history: the task indices in the order the tasks finished
  log,              \* history: <<stage, "start" | "end" | "raise">> events
  exchange,         \* the messages of the current / last blocking agent call
  error,            \* the message of the exception that fails the run, if any
  response,         \* what the /qa endpoint answered, NoResponse before
  docs,             \* serialize_chunks: its argument
  serialized,       \* serialize_chunks: its result, NotCalled before the call
  agent_input,      \* an agent of create_agent: system prompt, input, model result
  agent_output      \* what invoke and ainvoke sent and returned, NotCalled before

\* The variables of the runs of serialize_chunks and of an agent on their own.
pure_vars == <<docs, serialized, agent_input, agent_output>>

vars == <<request, state, pc, active, planner_content, tasks, completion, log,
          exchange, error, response, docs, serialized, agent_input, agent_output>>

NoError == "no error"
NoResponse == [status |-> "none"]
NotCalled == [called |-> FALSE]

Stages == <<"planner", "retriever", "summarizer", "verifier">>

\* The stage after `stage` in the pipeline's fixed order, "done" after the last.
NextStage(stage) ==
  CASE stage = "planner" -> "retriever"
    [] stage = "retriever" -> "summarizer"
    [] stage = "summarizer" -> "verifier"
    [] stage = "verifier" -> "done"

\* The pipeline merges a node's partial output into the shared state.
Merge(st, update) == update @@ st

\* state.get(key, default)
Get(st, key, default) == IF key \in DOMAIN st THEN st[key] ELSE default

\* The questions a request is made with.
Questions == {<<"q">>, <<"a", " ", "b">>}

\* The model answers of the Summarizer and the Verifier; <<>> is an empty answer.
Answers == {<<"ans1">>, <<"ans2">>, <<>>}

\* The sub-question line k of a structured planner response.
SubQLine(k) == <<Newline, "-", " ">> \o [j \in 1..k |-> "a"]

\* "Plan:\na\nSub-questions:" followed by n bullet lines
RECURSIVE StructuredResponse(_)
StructuredResponse(n) ==
  IF n = 0 THEN <<PlanMarker, Newline, "a", Newline, SubQMarker>>
  ELSE StructuredResponse(n - 1) \o SubQLine(n)

\* The planner responses of the pipeline: free text without markers, and
\* structured responses with 0..MaxSubQ sub-question lines.
PlannerResponses == {<<"a">>} \cup {StructuredResponse(n) : n \in 0..MaxSubQ}

\* The example response of the documentation.
DocExample ==
  <<PlanMarker, Newline, "a", " ", "b", Newline, SubQMarker, Newline,
    "-", " ", "a", Newline, "-", " ", "b">>

\* The planner responses SpecParse enumerates.
AllResponses == TextsUpTo(MaxLen) \cup {DocExample}

\* run_qa_flow(question): a fresh QAState holding only the question.
InitState(q) == [question |-> q]

\* A request at the entry of the pipeline.
InitRequest ==
  /\ state = InitState(request)
  /\ pc = "planner"
  /\ active = FALSE
  /\ planner_content = <<>>
  /\ tasks = <<>>
  /\ completion = <<>>
  /\ log = <<>>
  /\ exchange = <<>>
  /\ error = NoError
  /\ response = NoResponse

\* serialize_chunks and the agents are not run on their own.
InitPure ==
  /\ docs = <<>>
  /\ serialized = NotCalled
  /\ agent_input = NotCalled
  /\ agent_output = NotCalled

Init ==
  /\ request \in Questions
  /\ InitRequest
  /\ InitPure

\* A node returned `update`: the pipeline merges it and moves to the next stage.
StageEnd(stage, update) ==
  /\ state' = Merge(state, update)
  /\ pc' = NextStage(stage)
  /\ active' = FALSE
  /\ log' = Append(log, <<stage, "end">>)

\* A node raised: the exception leaves the pipeline's run.
StageRaise(stage) ==
  /\ pc' = "failed"
  /\ active' = FALSE
  /\ log' = Append(log, <<stage, "raise">>)
  /\ UNCHANGED state

\* The pipeline enters the node of stage `stage`.
StageStart(stage) ==
  /\ pc = stage
  /\ ~active
  /\ active' = TRUE
  /\ log' = Append(log, <<stage, "start">>)
  /\ UNCHANGED <<state, pc>>

\* The messages of the exceptions a backend call can raise.
ErrorMessages == {"timeout", "rate limit"}

\* planning_node: the input of planning_agent.invoke
PlanningInput(st) == StrInput(st.question)

\* planning_node up to planning_agent.invoke(question)
PlanningCall ==
  /\ StageStart("planner")
  /\ exchange' = InvokeMessages(PLANNING_AGENT_PROMPT, PlanningInput(state))
  /\ UNCHANGED <<pure_vars, error, response, request, planner_content, tasks, completion>>

\* planning_agent.invoke returned, the model's message holding `content`:
\* parse it and return the update
PlanningReturn(content) ==
  LET result == AgentInvoke(PLANNING_AGENT_PROMPT, PlanningInput(state),
                            AIMessage(content, <<>>))
  IN /\ planner_content' = ExtractLastAIContent(result.messages)
     /\ exchange' = result.messages
     /\ StageEnd("planner", planning_node(state, ExtractLastAIContent(result.messages)))
     /\ UNCHANGED <<pure_vars, error, response, request, tasks, completion>>

\* planning_agent.invoke returns one of `responses`
PlannerResponds(responses) ==
  /\ pc = "planner" /\ active
  /\ \E content \in responses : PlanningReturn(content)

\* planning_agent.invoke raised
PlanningRaise ==
  /\ pc = "planner" /\ active
  /\ StageRaise("planner")
  /\ error' \in ErrorMessages
  /\ UNCHANGED <<pure_vars, exchange, response, request, planner_content, tasks, completion>>


\* ------------------------------------------------------------- retriever
RetrievalToolName == "retrieval_tool"
ToolNames == {RetrievalToolName, "other_tool"}

\* last_msg.tool_calls of one retrieval-agent response, by tool name
ToolCallLists == UNION {[1..n -> ToolNames] : n \in 0..MaxToolCalls}

\* A retrieval call still in flight.
Pending == [kind |-> "pending", content |-> "", artifact |-> ""]
\* A retrieval call that raised.
Raised == [kind |-> "raised", content |-> "", artifact |-> ""]


\* What retrieval_tool returns when the search finds no passage: the
\* serializer's text for the empty list, and the empty list as artifact.
EmptyRetrievalResult ==
  [kind |-> "tuple", content |-> NoRelevantContextFound, artifact |-> ""]

\* What retrieval_tool.ainvoke can return: (content, artifact) or the content
\* alone, the content being the serialized passages ("p1", "p2") or, without
\* any passage, the serializer's own sentinel.
ToolResults ==
  {[kind |-> "tuple", content |-> "p1", artifact |-> "docs"],
   [kind |-> "str", content |-> "p2", artifact |-> ""],
   EmptyRetrievalResult}

\* sub_questions = state.get("sub_questions") or [state["question"]]
RetrievalQueries(st) ==
  LET sub_questions == Get(st, "sub_questions", <<>>)
  IN IF sub_questions # <<>> THEN sub_questions ELSE <<st.question>>

\* A process_question(q) coroutine that awaits retrieval_agent.ainvoke.
NewTask(q) ==
  [q |-> q, st |-> "agent", agent_calls |-> 1, tool_calls |-> <<>>,
   results |-> <<>>, returned |-> <<>>, out |-> <<>>]

\* process_question: the input of retrieval_agent.ainvoke
RetrievalInput(q) == DictInput(<<HumanMessage(<<"Retrieve context for: ">> \o q)>>)

\* Mutation of FailTask: process_question calls the agent again after a failure.
RetryTask(task) ==
  [task EXCEPT !.st = "agent", !.agent_calls = @ + 1, !.tool_calls = <<>>,
               !.results = <<>>, !.returned = <<>>]

\* An exception in process_question leaves it: nothing catches it, no call is
\* made again.
FailTask(task) == [task EXCEPT !.st = "failed"]

\* asyncio.gather keeps the first exception raised below it.
FirstError(msg) == IF error = NoError THEN msg ELSE error

\* Mutation of ToolTasks: a response naming an unknown tool launches no call.
ToolTasksStrict(tool_calls) ==
  IF \E k \in 1..Len(tool_calls) : tool_calls[k] # RetrievalToolName
  THEN <<>>
  ELSE tool_calls

\* The tool calls process_question turns into tool_tasks.
ToolTasks(tool_calls) == SelectSeq(tool_calls, LAMBDA name : name = RetrievalToolName)

\* Mutation of ResultContent: res[1] of a (content, artifact) result is taken.
ResultArtifact(res) == IF res.kind = "tuple" THEN res.artifact ELSE res.content

\* res[0] of a (content, artifact) result, res itself otherwise
ResultContent(res) == res.content

\* final_contents of process_question
FinalContents(results) == [j \in 1..Len(results) |-> ResultContent(results[j])]

\* Mutation of ToolsJoined: the inner join is over as soon as one call returned.
SomeToolReturned(results) == \E j \in 1..Len(results) : results[j].kind \in {"tuple", "str"}

\* asyncio.gather(*tool_tasks) has a result: every call returned.
ToolsJoined(results) == \A j \in 1..Len(results) : results[j].kind \in {"tuple", "str"}

\* Mutation of AllJoined: the outer join is over as soon as one task returned.
AnyJoined(ts) == \E i \in 1..Len(ts) : ts[i].st = "done"

\* Mutation of AllJoined: gather(..., return_exceptions=True), a failed task
\* counts as finished and contributes nothing.
AllSettled(ts) == \A i \in 1..Len(ts) : ts[i].st \in {"done", "failed"}

\* asyncio.gather(*(process_question(q) ...)) has a result: every task returned.
AllJoined(ts) == \A i \in 1..Len(ts) : ts[i].st = "done"

\* Mutation of AnyFailed: the outer gather does not notice a failed task.
NeverFailed(ts) == FALSE

\* asyncio.gather raises as soon as one of its awaitables has raised.
AnyFailed(ts) == \E i \in 1..Len(ts) : ts[i].st = "failed"

\* [ctx for sublist in results for ctx in sublist] over the first n results
RECURSIVE Flatten(_, _)
Flatten(results, n) ==
  IF n = 0 THEN <<>> ELSE Flatten(results, n - 1) \o results[n]

\* Mutation of GatherResults: the return values in the order the tasks finished.
GatherInCompletionOrder(ts, order) == [k \in 1..Len(order) |-> ts[order[k]].out]

\* The results of the outer gather: the tasks' return values in argument order,
\* whatever the order `order` the tasks finished in.
GatherResults(ts, order) == [i \in 1..Len(ts) |-> ts[i].out]

\* "\n\n".join(parts)
BlankLine == "\n\n"
RECURSIVE JoinBlank(_)
JoinBlank(parts) ==
  IF parts = <<>> THEN <<>>
  ELSE IF Len(parts) = 1 THEN <<parts[1]>>
  ELSE <<parts[1], BlankLine>> \o JoinBlank(Tail(parts))

NoContextFound == <<"No context found.">>

\* What retrieval_node returns once the outer gather has its results.
retrieval_node(ts, order) ==
  LET results == GatherResults(ts, order)
      all_context == Flatten(results, Len(results))
  IN [context |-> IF all_context # <<>> THEN JoinBlank(all_context) ELSE NoContextFound]

\* The number of tool calls requested so far in this request.
RECURSIVE Requested(_, _)
Requested(ts, n) ==
  IF n = 0 THEN 0 ELSE Requested(ts, n - 1) + Len(ts[n].tool_calls)

\* retrieval_node up to the outer gather: one task per sub-question is launched
RetrievalLaunch ==
  /\ StageStart("retriever")
  /\ LET sub_questions == RetrievalQueries(state)
     IN tasks' = [i \in 1..Len(sub_questions) |-> NewTask(sub_questions[i])]
  /\ UNCHANGED <<pure_vars, exchange, error, response, request, planner_content, completion>>

\* retrieval_node is suspended in the outer gather
Gathering == pc = "retriever" /\ active

\* retrieval_agent.ainvoke of task i returned a message with `tool_calls`
AgentReturn(i, tool_calls) ==
  /\ Gathering
  /\ tasks[i].st = "agent"
  /\ Requested(tasks, Len(tasks)) + Len(tool_calls) <= MaxToolCalls
  /\ LET result == AgentAinvoke(RETRIEVAL_SYSTEM_PROMPT, RetrievalInput(tasks[i].q),
                                AIMessage(<<>>, tool_calls))
         last_msg == result.messages[Len(result.messages)]
         tool_tasks == ToolTasks(last_msg.tool_calls)
     IN IF last_msg.tool_calls # <<>> /\ tool_tasks # <<>>
        THEN /\ tasks' = [tasks EXCEPT ![i].st = "tools",
                                       ![i].tool_calls = last_msg.tool_calls,
                                       ![i].results = [j \in 1..Len(tool_tasks) |-> Pending]]
             /\ UNCHANGED completion
        ELSE /\ tasks' = [tasks EXCEPT ![i].st = "done",
                                       ![i].tool_calls = last_msg.tool_calls]
             /\ completion' = Append(completion, i)
  /\ UNCHANGED <<pure_vars, exchange, error, response, request, state, pc, active, planner_content, log>>

\* retrieval_agent.ainvoke of task i raised: the task fails
AgentRaise(i) ==
  /\ Gathering
  /\ tasks[i].st = "agent"
  /\ tasks' = [tasks EXCEPT ![i] = FailTask(tasks[i])]
  /\ \E msg \in ErrorMessages : error' = FirstError(msg)
  /\ UNCHANGED <<pure_vars, exchange, response, request, state, pc, active,
                 planner_content, completion, log>>

\* retrieval call j of task i returned `res`
ToolReturn(i, j, res) ==
  /\ Gathering
  /\ tasks[i].st = "tools"
  /\ tasks[i].results[j] = Pending
  /\ tasks' = [tasks EXCEPT ![i].results[j] = res,
                            ![i].returned = Append(@, j)]
  /\ UNCHANGED <<pure_vars, exchange, error, response, request, state, pc, active, planner_content, completion, log>>

\* retrieval call j of task i raised: the inner gather raises and the task fails
ToolRaise(i, j) ==
  /\ Gathering
  /\ tasks[i].st = "tools"
  /\ tasks[i].results[j] = Pending
  /\ tasks' = [tasks EXCEPT ![i] = FailTask([tasks[i] EXCEPT !.results[j] = Raised])]
  /\ \E msg \in ErrorMessages : error' = FirstError(msg)
  /\ UNCHANGED <<pure_vars, exchange, response, request, state, pc, active,
                 planner_content, completion, log>>

\* the inner gather of task i is complete: process_question returns final_contents
ProcessQuestionReturn(i) ==
  /\ Gathering
  /\ tasks[i].st = "tools"
  /\ ToolsJoined(tasks[i].results)
  /\ tasks' = [tasks EXCEPT ![i].st = "done", ![i].out = FinalContents(tasks[i].results)]
  /\ completion' = Append(completion, i)
  /\ UNCHANGED <<pure_vars, exchange, error, response, request, state, pc, active, planner_content, log>>

\* the outer gather is complete: retrieval_node flattens, joins and returns
RetrievalReturn ==
  /\ Gathering
  /\ AllJoined(tasks)
  /\ StageEnd("retriever", retrieval_node(tasks, completion))
  /\ UNCHANGED <<pure_vars, exchange, error, response, request, planner_content, tasks, completion>>

\* the outer gather raised: retrieval_node raises
RetrievalRaise ==
  /\ Gathering
  /\ AnyFailed(tasks)
  /\ StageRaise("retriever")
  /\ UNCHANGED <<pure_vars, exchange, error, response, request, planner_content, tasks, completion>>


\* ------------------------------------------------ summarizer and verifier
\* Mutation of summarization_node: it also rewrites the context.
summarization_node_rewrites(st, content) ==
  [draft_answer |-> content, context |-> <<"Question:">> \o st.question]

\* Mutation of verification_node: the result goes to the Summarizer's field.
verification_node_misfiled(st, content) == [draft_answer |-> content]

\* What summarization_node returns for the model's response `content`.
summarization_node(st, content) == [draft_answer |-> content]

\* What verification_node returns for the model's response `content`.
verification_node(st, content) == [answer |-> content]

\* Mutation of SummarizationInput: the context is trimmed of its first passage.
SummarizationInputCut(st) ==
  DictInput(<<HumanMessage(<<"Question: ">> \o st.question \o <<"\n\nContext:\n">>
                           \o Tail(Get(st, "context", <<"None">>)))>>)

\* summarization_node: user_content, as the input of summarization_agent.invoke
SummarizationInput(st) ==
  DictInput(<<HumanMessage(<<"Question: ">> \o st.question \o <<"\n\nContext:\n">>
                           \o Get(st, "context", <<"None">>))>>)

\* verification_node: user_content, as the input of verification_agent.invoke
VerificationInput(st) ==
  DictInput(<<HumanMessage(
    <<"Question: ">> \o st.question \o <<"\n\nContext:\n">> \o Get(st, "context", <<>>)
    \o <<"\n\nDraft Answer:\n">> \o Get(st, "draft_answer", <<>>)
    \o <<"\n\nPlease verify and correct the draft answer, removing any unsupported claims.">>)>>)

\* summarization_node up to summarization_agent.invoke
SummarizationCall ==
  /\ StageStart("summarizer")
  /\ exchange' = InvokeMessages(SUMMARIZATION_SYSTEM_PROMPT, SummarizationInput(state))
  /\ UNCHANGED <<pure_vars, error, response, request, planner_content, tasks, completion>>

\* summarization_agent.invoke returned, the model's message holding `content`
SummarizationReturn(content) ==
  /\ pc = "summarizer" /\ active
  /\ LET result == AgentInvoke(SUMMARIZATION_SYSTEM_PROMPT, SummarizationInput(state),
                               AIMessage(content, <<>>))
     IN /\ exchange' = result.messages
        /\ StageEnd("summarizer",
                    summarization_node(state, ExtractLastAIContent(result.messages)))
  /\ UNCHANGED <<pure_vars, error, response, request, planner_content, tasks, completion>>

\* summarization_agent.invoke raised
SummarizationRaise ==
  /\ pc = "summarizer" /\ active
  /\ StageRaise("summarizer")
  /\ error' \in ErrorMessages
  /\ UNCHANGED <<pure_vars, exchange, response, request, planner_content, tasks, completion>>

\* verification_node up to verification_agent.invoke
VerificationCall ==
  /\ StageStart("verifier")
  /\ exchange' = InvokeMessages(VERIFICATION_SYSTEM_PROMPT, VerificationInput(state))
  /\ UNCHANGED <<pure_vars, error, response, request, planner_content, tasks, completion>>

\* verification_agent.invoke returned, the model's message holding `content`
VerificationReturn(content) ==
  /\ pc = "verifier" /\ active
  /\ LET result == AgentInvoke(VERIFICATION_SYSTEM_PROMPT, VerificationInput(state),
                               AIMessage(content, <<>>))
     IN /\ exchange' = result.messages
        /\ StageEnd("verifier",
                    verification_node(state, ExtractLastAIContent(result.messages)))
  /\ UNCHANGED <<pure_vars, error, response, request, planner_content, tasks, completion>>

\* verification_agent.invoke raised
VerificationRaise ==
  /\ pc = "verifier" /\ active
  /\ StageRaise("verifier")
  /\ error' \in ErrorMessages
  /\ UNCHANGED <<pure_vars, exchange, response, request, planner_content, tasks, completion>>

\* ---------------------------------------------------------- /qa endpoint
\* qa_endpoint: the response for the final state answer_question returned
QaResponse(result) ==
  [status |-> "ok",
   answer |-> Get(result, "answer", <<"No answer generated.">>),
   context |-> Get(result, "context", <<"No context retrieved.">>)]

\* Mutation of QaFailure: the failure is answered like a run without fields.
QaFailureAsAnswer(e) == QaResponse(<<>>)

\* qa_endpoint: HTTPException(status_code=500, detail=str(e))
QaFailure(e) == [status |-> "500", detail |-> e]

\* qa_endpoint: answer_question returned the final state
QaEndpointReturn ==
  /\ pc = "done"
  /\ response = NoResponse
  /\ response' = QaResponse(state)
  /\ UNCHANGED <<pure_vars, exchange, error, request, state, pc, active,
                 planner_content, tasks, completion, log>>

\* qa_endpoint: answer_question raised
QaEndpointRaise ==
  /\ pc = "failed"
  /\ response = NoResponse
  /\ response' = QaFailure(error)
  /\ UNCHANGED <<pure_vars, exchange, error, request, state, pc, active,
                 planner_content, tasks, completion, log>>

\* ------------------------------------------------------- specifications
TaskIds == 1..Len(tasks)

RetrievalStep ==
  \/ RetrievalLaunch
  \/ \E i \in TaskIds, tool_calls \in ToolCallLists : AgentReturn(i, tool_calls)
  \/ \E i \in TaskIds : AgentRaise(i)
  \/ \E i \in TaskIds : \E j \in 1..Len(tasks[i].results), res \in ToolResults :
       ToolReturn(i, j, res)
  \/ \E i \in TaskIds : \E j \in 1..Len(tasks[i].results) : ToolRaise(i, j)
  \/ \E i \in TaskIds : ProcessQuestionReturn(i)
  \/ RetrievalReturn
  \/ RetrievalRaise

Next ==
  \/ PlanningCall
  \/ PlannerResponds(PlannerResponses)
  \/ PlanningRaise
  \/ RetrievalStep
  \/ SummarizationCall
  \/ \E content \in Answers : SummarizationReturn(content)
  \/ SummarizationRaise
  \/ VerificationCall
  \/ \E content \in Answers : VerificationReturn(content)
  \/ VerificationRaise
  \/ QaEndpointReturn
  \/ QaEndpointRaise

\* One request through the pipeline.
Spec == Init /\ [][Next]_vars

\* One request through the pipeline when every backend call in flight
\* eventually completes or raises and the event loop runs every task that can
\* run: a step that stays possible is eventually taken.
FairSpec == Spec /\ WF_vars(Next)

\* The planner on every response of at most MaxLen symbols, up to the launch
\* of the retrieval tasks.
NextParse ==
  \/ PlanningCall
  \/ PlannerResponds(AllResponses)
  \/ RetrievalLaunch

SpecParse == Init /\ [][NextParse]_vars

\* serialize_chunks on its own, on every list of DocLists.
InitSerialize ==
  /\ request = <<"q">>
  /\ InitRequest
  /\ docs \in DocLists
  /\ serialized = NotCalled
  /\ agent_input = NotCalled
  /\ agent_output = NotCalled

SerializeChunks ==
  /\ serialized = NotCalled
  /\ serialized' = [called |-> TRUE, result |-> serialize_chunks(docs)]
  /\ UNCHANGED <<request, state, pc, active, planner_content, tasks, completion, log,
                 exchange, error, response, docs, agent_input, agent_output>>

SpecSerialize == InitSerialize /\ [][SerializeChunks]_vars

\* The four module-level agents, by their system prompt.
AgentPrompts ==
  {PLANNING_AGENT_PROMPT, RETRIEVAL_SYSTEM_PROMPT,
   SUMMARIZATION_SYSTEM_PROMPT, VERIFICATION_SYSTEM_PROMPT}

\* The messages a caller puts in a "messages" list.
CallerMessages ==
  {HumanMessage(<<"q">>), AIMessage(<<"ans1">>, <<>>), SystemMessage(<<"x">>)}

\* The inputs of an agent: a question string, or a dict whose "messages" are
\* at most MaxMessages messages.
AgentInputs ==
  {StrInput(q) : q \in Questions \cup {<<>>}}
    \cup {DictInput(msgs) : msgs \in UNION {[1..n -> CallerMessages] : n \in 0..MaxMessages}}

\* The messages the bound model answers with.
ModelResults == {AIMessage(<<"ans1">>, <<>>), AIMessage(<<>>, <<RetrievalToolName>>)}

\* An agent of create_agent on its own, on every input of AgentInputs.
InitAgent ==
  /\ request = <<"q">>
  /\ InitRequest
  /\ docs = <<>>
  /\ serialized = NotCalled
  /\ agent_input \in [system_prompt : AgentPrompts, input_data : AgentInputs,
                       result : ModelResults]
  /\ agent_output = [invoke |-> NotCalled, ainvoke |-> NotCalled]

\* agent.invoke(input_data), the model answering agent_input.result
AgentInvokeCall ==
  /\ agent_output.invoke = NotCalled
  /\ agent_output' =
       [agent_output EXCEPT !.invoke =
          [called |-> TRUE,
           sent |-> InvokeMessages(agent_input.system_prompt, agent_input.input_data),
           returned |-> AgentInvoke(agent_input.system_prompt, agent_input.input_data,
                                    agent_input.result)]]
  /\ UNCHANGED <<request, state, pc, active, planner_content, tasks, completion, log,
                 exchange, error, response, docs, serialized, agent_input>>

\* await agent.ainvoke(input_data), the model answering agent_input.result
AgentAinvokeCall ==
  /\ agent_output.ainvoke = NotCalled
  /\ agent_output' =
       [agent_output EXCEPT !.ainvoke =
          [called |-> TRUE,
           sent |-> AinvokeMessages(agent_input.system_prompt, agent_input.input_data),
           returned |-> AgentAinvoke(agent_input.system_prompt, agent_input.input_data,
                                     agent_input.result)]]
  /\ UNCHANGED <<request, state, pc, active, planner_content, tasks, completion, log,
                 exchange, error, response, docs, serialized, agent_input>>

NextAgent == AgentInvokeCall \/ AgentAinvokeCall

SpecAgent == InitAgent /\ [][NextAgent]_vars


\* ----------------------------------------------------------------- claims
Fields == {"question", "plan", "sub_questions", "context", "draft_answer", "answer"}

\* The fields each stage is to write.
WritesOf(stage) ==
  CASE stage = "planner" -> {"plan", "sub_questions"}
    [] stage = "retriever" -> {"context"}
    [] stage = "summarizer" -> {"draft_answer"}
    [] stage = "verifier" -> {"answer"}
    [] OTHER -> {}

Populated(field) == field \in DOMAIN state

\* The events of a run in which no backend call fails.
FullRun ==
  <<<<"planner", "start">>, <<"planner", "end">>,
    <<"retriever", "start">>, <<"retriever", "end">>,
    <<"summarizer", "start">>, <<"summarizer", "end">>,
    <<"verifier", "start">>, <<"verifier", "end">>>>

IsPrefix(s, t) == Len(s) <= Len(t) /\ SubSeq(t, 1, Len(s)) = s

\* A retrieval task, or one of its retrieval calls, is still in flight.
InFlight(i) == tasks[i].st \in {"agent", "tools"}

\* A backend call of the request has raised.
BackendRaised ==
  \/ AnyFailed(tasks)
  \/ \E k \in 1..Len(log) : log[k][2] = "raise"

\* C1: the stages run in the order Planner, Retriever, Summarizer, Verifier,
\* one at a time: the events of a run are a prefix of FullRun (possibly
\* ended by the raise of the stage that was running), a stage is entered only
\* with the fields of the stages before it merged into the state and with no
\* retrieval task of an earlier stage still in flight, and a run that
\* completes has run each stage exactly once.
C1_StagesInOrder ==
  /\ \/ IsPrefix(log, FullRun)
     \/ /\ log # <<>>
        /\ log[Len(log)][2] = "raise"
        /\ Len(log) >= 2
        /\ log[Len(log) - 1] = <<log[Len(log)][1], "start">>
        /\ IsPrefix(SubSeq(log, 1, Len(log) - 1), FullRun)
  /\ pc = "done" => log = FullRun
  /\ pc \in {"retriever", "summarizer", "verifier", "done"} =>
       WritesOf("planner") \subseteq DOMAIN state
  /\ pc \in {"summarizer", "verifier", "done"} =>
       /\ Populated("context")
       /\ \A i \in TaskIds : ~InFlight(i)
  /\ pc \in {"verifier", "done"} => Populated("draft_answer")

\* C1 witness: a run over two sub-questions has completed.
C1_Witness == pc = "done" /\ log = FullRun /\ Len(tasks) >= 2

\* C2: once a backend call has raised, the run does not complete: no later
\* stage is entered, `answer` is never populated, and the run ends "failed"
\* (the caller gets the error, not the partly populated state).
C2_FatalPropagation ==
  BackendRaised =>
    /\ pc = "failed" \/ (pc = "retriever" /\ active)
    /\ ~Populated("answer")
    /\ AnyFailed(tasks) =>
         /\ ~Populated("context")
         /\ \A k \in 1..Len(log) : log[k][1] \notin {"summarizer", "verifier"}
    /\ \A k \in 1..Len(log) : log[k][2] = "raise" => k = Len(log)

\* C2 witness: a retrieval call raised for every sub-question and the run
\* failed with only the Planner's fields in the state.
C2_Witness ==
  /\ pc = "failed"
  /\ Len(tasks) >= 2
  /\ \A i \in TaskIds :
       /\ tasks[i].st = "failed"
       /\ \E j \in 1..Len(tasks[i].results) : tasks[i].results[j] = Raised
  /\ DOMAIN state = {"question", "plan", "sub_questions"}


\* The number of passage texts the tasks before task i returned.
RECURSIVE Offset(_)
Offset(i) == IF i = 1 THEN 0 ELSE Offset(i - 1) + Len(tasks[i - 1].out)

\* The number of passage texts all tasks returned.
TotalPassages == IF tasks = <<>> THEN 0 ELSE Offset(Len(tasks)) + Len(tasks[Len(tasks)].out)

\* C3: the context lists the passages in sub-question order, whatever order
\* the tasks finished in: passage j of sub-question i is the passage number
\* Offset(i) + j of the context, the passages are separated by blank lines,
\* and nothing else is in the context.
C3_SubmissionOrder ==
  (Populated("context") /\ TotalPassages > 0) =>
    LET ctx == state.context
    IN /\ Len(ctx) = 2 * TotalPassages - 1
       /\ \A i \in TaskIds : \A j \in 1..Len(tasks[i].out) :
            ctx[2 * (Offset(i) + j) - 1] = tasks[i].out[j]
       /\ \A k \in 1..Len(ctx) : k % 2 = 0 => ctx[k] = BlankLine

\* C3 witness: the second sub-question's task finished first, the two tasks
\* returned different passages, and the context has been written.
C3_Witness ==
  /\ Populated("context")
  /\ Len(tasks) = 2
  /\ completion = <<2, 1>>
  /\ tasks[1].out # <<>>
  /\ tasks[2].out # <<>>
  /\ tasks[1].out # tasks[2].out
  /\ state.context[1] = tasks[1].out[1]

\* The number of passages of a context.
PassageCount(ctx) == IF ctx = NoContextFound THEN 0 ELSE (Len(ctx) + 1) \div 2

\* The number of retrieval calls the tasks launched.
RECURSIVE Launched(_)
Launched(n) == IF n = 0 THEN 0 ELSE Launched(n - 1) + Len(tasks[n].results)

\* C4: the context is written behind the join: when it is populated, and as
\* long as a later stage runs, every task has returned and every retrieval
\* call a task launched has returned, and the context holds one passage per
\* launched call (no task's result is left out).
C4_JoinBeforeMerge ==
  (Populated("context") \/ pc \in {"summarizer", "verifier", "done"}) =>
    /\ tasks # <<>>
    /\ \A i \in TaskIds :
         /\ tasks[i].st = "done"
         /\ Len(tasks[i].results) = Len(ToolTasks(tasks[i].tool_calls))
         /\ Len(tasks[i].out) = Len(tasks[i].results)
         /\ \A j \in 1..Len(tasks[i].results) :
              /\ tasks[i].results[j].kind \in {"tuple", "str"}
              /\ tasks[i].out[j] = tasks[i].results[j].content
    /\ PassageCount(state.context) = Launched(Len(tasks))

\* C4 witness: the context was written from two tasks, one of which launched
\* two retrieval calls.
C4_Witness ==
  /\ Populated("context")
  /\ Len(tasks) >= 2
  /\ \E i \in TaskIds : Len(tasks[i].results) >= 2
  /\ pc = "summarizer"

\* C5: a step changes no field that is already in the state (`question`
\* included), the fields a step adds are exactly those of the stage that
\* ends with it, and a step of a retrieval task writes no field.
C5_SingleWriter ==
  [][/\ \A k \in DOMAIN state : k \in DOMAIN state' /\ state'[k] = state[k]
     /\ state' # state =>
          /\ pc' = NextStage(pc)
          /\ DOMAIN state' \ DOMAIN state = WritesOf(pc)
     /\ tasks' # tasks => state' = state]_vars

\* C5 witness: every stage has written its fields.
C5_Witness ==
  /\ DOMAIN state = Fields
  /\ state.question = request
  /\ Len(state.context) > 1

\* C6: the state starts with `question` only and is populated in stage
\* order, and the state a completed run returns has all six fields, with
\* `question` the question asked.
C6_MonotonePopulation ==
  /\ Populated("question") /\ state.question = request
  /\ log = <<>> => DOMAIN state = {"question"}
  /\ Populated("answer") => Populated("draft_answer")
  /\ Populated("draft_answer") => Populated("context")
  /\ Populated("context") => Populated("plan") /\ Populated("sub_questions")
  /\ Populated("plan") <=> Populated("sub_questions")
  /\ pc = "done" => DOMAIN state = Fields
  /\ DOMAIN state \subseteq Fields

\* C6 witness: a run has completed with an answer.
C6_Witness == pc = "done" /\ Populated("answer") /\ state.answer # <<>>


\* The Planner has returned and its output is in the state.
Planned == Populated("plan") /\ Populated("sub_questions")

\* C7: for a planner response without the marker Sub-questions:, the Planner
\* returns normally with sub_questions = [question]; without the marker
\* Plan: as well, plan is the empty string.
C7_SubQuestionFallback ==
  /\ (Planned /\ ~Contains(planner_content, SubQMarker)) =>
       /\ state.sub_questions = <<request>>
       /\ ~Contains(planner_content, PlanMarker) => state.plan = <<>>
  /\ pc # "failed"
  /\ (log # <<>> /\ log[Len(log)] = <<"planner", "end">>) => Planned /\ pc = "retriever"

\* C7 witness: a response with a plan and no sub-question marker was parsed.
C7_Witness ==
  /\ Planned
  /\ ~Contains(planner_content, SubQMarker)
  /\ Contains(planner_content, PlanMarker)
  /\ state.plan # <<>>
  /\ state.sub_questions = <<request>>

\* C8: the sub_questions the Planner writes is never the empty list, and the
\* Retriever launches one task per sub-question: at least one.
C8_NeverZeroQueries ==
  /\ Planned => Len(state.sub_questions) >= 1
  /\ (pc = "retriever" /\ active) =>
       /\ Len(tasks) >= 1
       /\ Len(tasks) = Len(state.sub_questions)
       /\ \A i \in TaskIds : tasks[i].q = state.sub_questions[i]

\* C8 witness: the response has a Sub-questions: section without any entry,
\* and the Retriever launched its one task, for the question.
C8_Witness ==
  /\ pc = "retriever" /\ active
  /\ Contains(planner_content, SubQMarker)
  /\ ParseSubQuestions(planner_content) = <<>>
  /\ Len(tasks) = 1
  /\ tasks[1].q = request

\* The text after the first occurrence of `marker` in a text that holds it.
AfterFirst(text, marker) == SubSeq(text, IndexOf(text, marker) + 1, Len(text))

\* The text before the first occurrence of `marker`, all of it without one.
UpTo(text, marker) ==
  IF Contains(text, marker) THEN SubSeq(text, 1, IndexOf(text, marker) - 1) ELSE text

\* The plan as documented: what follows Plan: up to the next Sub-questions:
\* marker or the end of the text, trimmed.
DocumentedPlan(content) ==
  Strip(UpTo(AfterFirst(content, PlanMarker), SubQMarker), Whitespace)

\* C9: for a response holding the marker Plan:, plan is the text after it up
\* to the next Sub-questions: marker or the end of the text, trimmed, also
\* when that text holds Plan: again.
C9_PlanExtraction ==
  (Planned /\ Contains(planner_content, PlanMarker)) =>
    state.plan = DocumentedPlan(planner_content)

\* One documented sub-question: the line without its leading bullet
\* (`-` and the blanks around it); what follows is kept.
DocumentedLine(q) == Strip(LStrip(q, BulletChars), Whitespace)

\* The sub-questions as documented: every non-empty line after the marker.
DocumentedSubQuestions(content) ==
  LET lines == SelectSeq(Split(AfterFirst(content, SubQMarker), Newline),
                         LAMBDA q : Strip(q, Whitespace) # <<>>)
  IN [k \in 1..Len(lines) |-> DocumentedLine(lines[k])]

\* The number of occurrences of `sep` in s.
Occurrences(s, sep) == Cardinality({i \in 1..Len(s) : s[i] = sep})

\* C10: for a response holding the marker Sub-questions: (once, so that "the
\* marker" is the one there is), each non-empty line after the marker is one
\* sub-question, in line order: the line without its leading bullet,
\* trailing `-` characters kept, no line left out.
C10_SubQuestionExtraction ==
  (/\ Planned
   /\ Occurrences(planner_content, SubQMarker) = 1
   /\ DocumentedSubQuestions(planner_content) # <<>>) =>
    state.sub_questions = DocumentedSubQuestions(planner_content)


\* No sub-question yielded a passage: each task requested no retrieval, or
\* every retrieval call it made found nothing.
NoPassageRetrieved ==
  \A i \in TaskIds : \A j \in 1..Len(tasks[i].results) :
    tasks[i].results[j] = EmptyRetrievalResult

\* C11: when no sub-question yields any passage (no tool invocation was
\* requested, or every retrieval call returned zero passages), the context
\* the Retriever writes is exactly "No context found.": never the empty
\* string, never the serializer's "No relevant context found.".
C11_EmptyRetrievalSentinel ==
  Populated("context") =>
    /\ state.context # <<>>
    /\ NoPassageRetrieved =>
         /\ state.context = NoContextFound
         /\ \A k \in 1..Len(state.context) : state.context[k] # NoRelevantContextFound

\* s.split(sep) for a separator of several characters
RECURSIVE SplitOn(_, _)
SplitOn(s, sep) ==
  LET hits == {i \in 1..(Len(s) - Len(sep) + 1) : SubSeq(s, i, i + Len(sep) - 1) = sep}
  IN IF hits = {} THEN <<s>>
     ELSE LET i == CHOOSE h \in hits : \A g \in hits : h <= g
          IN <<SubSeq(s, 1, i - 1)>> \o SplitOn(SubSeq(s, i + Len(sep), Len(s)), sep)

\* The content of a passage as documented: every newline a space, then the
\* text from its first to its last character that is not white space.
DocumentedContent(text) ==
  LET spaced == [k \in 1..Len(text) |-> IF text[k] = Newline THEN " " ELSE text[k]]
      solid == {k \in 1..Len(spaced) : spaced[k] \notin Whitespace}
  IN IF solid = {} THEN <<>>
     ELSE SubSeq(spaced, CHOOSE k \in solid : \A l \in solid : k <= l,
                         CHOOSE k \in solid : \A l \in solid : k >= l)

\* The rendering of passage i as documented.
DocumentedChunk(i, doc) ==
  <<"Chunk ", ToString(i), " (page=",
    IF "page" \in DOMAIN doc.metadata THEN ToString(doc.metadata.page) ELSE "unknown",
    "): ">> \o DocumentedContent(doc.page_content)

\* C12: serialize_chunks([]) is "No relevant context found."; on a non-empty
\* list the output, cut at the blank lines, is one rendering per document, in
\* input order, each `Chunk i (page=<page or unknown>): <content>` with the
\* content's newlines made spaces and the content trimmed.
C12_SerializedChunks ==
  serialized # NotCalled =>
    IF docs = <<>> THEN serialized.result = <<"No relevant context found.">>
    ELSE LET pieces == SplitOn(serialized.result, <<Newline, Newline>>)
         IN /\ Len(pieces) = Len(docs)
            /\ \A i \in 1..Len(docs) : pieces[i] = DocumentedChunk(i, docs[i])

\* Two documents, the first without a page and with a newline inside its
\* content, the second on page 0 and with a newline before its content, have
\* been serialized.
C12_Witness ==
  /\ serialized # NotCalled
  /\ Len(docs) = 2
  /\ "page" \notin DOMAIN docs[1].metadata
  /\ docs[1].page_content = <<"a", "\n", "a">>
  /\ "page" \in DOMAIN docs[2].metadata /\ docs[2].metadata.page = 0
  /\ docs[2].page_content = <<"\n", "a">>

\* The number of requests of `tool_calls` that name the retrieval tool.
KnownCalls(tool_calls) ==
  Cardinality({k \in 1..Len(tool_calls) : tool_calls[k] = "retrieval_tool"})

\* The number of requests naming the retrieval tool over the tasks 1..n.
RECURSIVE KnownCallsUpTo(_)
KnownCallsUpTo(n) ==
  IF n = 0 THEN 0 ELSE KnownCallsUpTo(n - 1) + KnownCalls(tasks[n].tool_calls)

\* C13: a requested invocation whose tool name is not retrieval_tool is
\* skipped: a task launches exactly one retrieval call per request that names
\* retrieval_tool and none for the others, a task whose response was received
\* fails only when one of its launched calls raised, it returns one passage
\* text per launched call, and the context holds one passage per request
\* naming retrieval_tool, over all sub-questions.
C13_UnknownToolSkipped ==
  /\ \A i \in TaskIds :
       tasks[i].tool_calls # <<>> =>
         /\ Len(tasks[i].results) = KnownCalls(tasks[i].tool_calls)
         /\ tasks[i].st = "failed" =>
              \E j \in 1..Len(tasks[i].results) : tasks[i].results[j] = Raised
         /\ tasks[i].st = "done" => Len(tasks[i].out) = KnownCalls(tasks[i].tool_calls)
  /\ Populated("context") =>
       PassageCount(state.context) = KnownCallsUpTo(Len(tasks))

\* C13 witness: a response requested an unknown tool and then retrieval_tool;
\* the one retrieval call was made, its passage is the context and the run
\* went on to completion.
C13_Witness ==
  /\ pc = "done"
  /\ \E i \in TaskIds :
       /\ tasks[i].tool_calls = <<"other_tool", "retrieval_tool">>
       /\ Len(tasks[i].results) = 1
       /\ tasks[i].out = <<"p1">>
  /\ state.context = <<"p1">>

\* The number of times `stage` was entered: its node reached its backend call.
Starts(stage) == Cardinality({k \in 1..Len(log) : log[k] = <<stage, "start">>})

\* Every backend call of the request so far was made once.
CalledOnce ==
  /\ \A k \in 1..Len(Stages) : Starts(Stages[k]) <= 1
  /\ pc = "done" => \A k \in 1..Len(Stages) : Starts(Stages[k]) = 1
  /\ tasks # <<>> => Len(tasks) = Len(state.sub_questions)
  /\ \A i \in TaskIds :
       /\ tasks[i].agent_calls = 1
       /\ Len(tasks[i].results) <= Len(tasks[i].tool_calls)

\* C14: no retry and no fallback: each stage makes its generation call at
\* most once (exactly once in a run that completes), the Retriever runs one
\* task per sub-question, each with one generation call and at most one
\* retrieval call per requested invocation, a task in which a call raised
\* takes no further step, and once the run has failed no stage is entered.
C14_NoRetry ==
  [][/\ CalledOnce'
     /\ \A i \in TaskIds : tasks[i].st = "failed" => (tasks' # <<>> /\ tasks'[i] = tasks[i])
     /\ pc = "failed" => (pc' = "failed" /\ log' = log /\ tasks' = tasks)]_vars

\* C14 witness: over two sub-questions, one task returned and the other's
\* retrieval call raised; the run failed with each call made once.
C14_Witness ==
  /\ pc = "failed"
  /\ response # NoResponse
  /\ Len(tasks) = 2
  /\ \E i, k \in TaskIds :
       /\ tasks[i].st = "failed"
       /\ \E j \in 1..Len(tasks[i].results) : tasks[i].results[j] = Raised
       /\ tasks[k].st = "done"
  /\ \A i \in TaskIds : tasks[i].agent_calls = 1

\* C15: the endpoint answers {answer, context} exactly for a run that
\* completed, with the final state's answer and context, and answers a server
\* error exactly for a run in which a backend call raised, its detail the
\* message of the exception, with no answer or context in the body.
C15_FailureDistinguishable ==
  response # NoResponse =>
    /\ response.status \in {"ok", "500"}
    /\ response.status = "ok" <=> pc = "done"
    /\ response.status = "500" <=> BackendRaised
    /\ response.status = "ok" =>
         /\ Populated("answer") /\ Populated("context")
         /\ response.answer = state.answer
         /\ response.context = state.context
    /\ response.status = "500" =>
         /\ DOMAIN response = {"status", "detail"}
         /\ response.detail \in ErrorMessages
         /\ response.detail = error

\* C15 witness: the Verifier's call raised "rate limit" with context and
\* draft answer in the state, and the endpoint answered the error.
C15_Witness ==
  /\ response # NoResponse
  /\ response.status = "500"
  /\ response.detail = "rate limit"
  /\ log[Len(log)] = <<"verifier", "raise">>
  /\ Populated("context") /\ Populated("draft_answer")

\* C17: the contribution of a sub-question whose task returned is one passage
\* text per retrieval call it made, entry j the content returned by the j-th
\* request naming the retrieval tool whatever order the calls returned in,
\* never the artifact of a (content, artifact) result; it is empty when the
\* response requested no tool invocation.
C17_Contribution ==
  \A i \in TaskIds :
    tasks[i].st = "done" =>
      /\ Len(tasks[i].out) = KnownCalls(tasks[i].tool_calls)
      /\ Len(tasks[i].returned) = Len(tasks[i].out)
      /\ \A j \in 1..Len(tasks[i].out) :
           /\ tasks[i].out[j] = tasks[i].results[j].content
           /\ tasks[i].results[j].kind = "tuple" =>
                tasks[i].out[j] # tasks[i].results[j].artifact
      /\ tasks[i].tool_calls = <<>> => tasks[i].out = <<>>

\* C17 witness: a task's second retrieval call returned before its first,
\* the first with a (content, artifact) pair, and the task returned the two
\* contents in the order of the requests.
C17_Witness ==
  \E i \in TaskIds :
    /\ tasks[i].st = "done"
    /\ tasks[i].returned = <<2, 1>>
    /\ tasks[i].results[1] = [kind |-> "tuple", content |-> "p1", artifact |-> "docs"]
    /\ tasks[i].results[2].content = "p2"
    /\ tasks[i].out = <<"p1", "p2">>

\* The planner's response had no usable sub-question: the fallback was taken.
PlannerFellBack ==
  /\ Populated("sub_questions")
  /\ ParseSubQuestions(planner_content) = <<>>
  /\ state.sub_questions = <<state.question>>

\* The Retriever wrote its sentinel.
SentinelContext == Populated("context") /\ state.context = <<"No context found.">>

\* The context part of a Summarizer or Verifier user message: what follows
\* "Context:", up to "Draft Answer:" when there is one.
ContextSent(text) ==
  LET rest == SubSeq(text, IndexOf(text, "\n\nContext:\n") + 1, Len(text))
  IN IF Contains(rest, "\n\nDraft Answer:\n")
     THEN SubSeq(rest, 1, IndexOf(rest, "\n\nDraft Answer:\n") - 1)
     ELSE rest

\* The last blocking call was the Summarizer's or the Verifier's.
AnswerCall ==
  /\ exchange # <<>>
  /\ exchange[1].content \in {SUMMARIZATION_SYSTEM_PROMPT, VERIFICATION_SYSTEM_PROMPT}

\* C18: a degraded result does not stop the run.  The Summarizer's and the
\* Verifier's user message carries the state's context unchanged, a run that
\* completed entered all four stages and has `answer`, a run ends without
\* `answer` only when a backend call raised, and from a planner fallback or
\* a sentinel context the run goes on to complete with `answer` unless a
\* backend call raises.
C18_DegradedRunsComplete ==
  /\ [](/\ AnswerCall =>
            /\ Len(exchange) >= 2
            /\ exchange[2].role = "human"
            /\ ContextSent(exchange[2].content) = state.context
        /\ pc = "done" => (log = FullRun /\ Populated("answer"))
        /\ (pc \in {"done", "failed"} /\ ~Populated("answer")) => BackendRaised
        /\ pc = "failed" => BackendRaised)
  /\ ((PlannerFellBack \/ SentinelContext) ~>
        ((pc = "done" /\ Populated("answer")) \/ BackendRaised))

\* C18 witness: the planner fell back to the question, no passage was
\* retrieved, and the run completed with the sentinel as the Verifier's
\* context.
C18_Witness ==
  /\ pc = "done"
  /\ PlannerFellBack
  /\ SentinelContext
  /\ Populated("answer")
  /\ exchange[1].content = VERIFICATION_SYSTEM_PROMPT
  /\ ContextSent(exchange[2].content) = <<"No context found.">>

\* The messages of the caller in an agent's input, as documented: the
\* question as one human message, or the message list as given.
CallerPart(input_data) ==
  IF input_data.kind = "str"
  THEN <<[role |-> "human", content |-> input_data.text, tool_calls |-> <<>>]>>
  ELSE input_data.messages

\* A call of the agent sent the system instruction first, then the caller's
\* messages in order, and returned what it sent with the result appended.
WellFormedCall(call) ==
  call # NotCalled =>
    /\ call.sent # <<>>
    /\ call.sent[1] = [role |-> "system", content |-> agent_input.system_prompt,
                       tool_calls |-> <<>>]
    /\ Tail(call.sent) = CallerPart(agent_input.input_data)
    /\ DOMAIN call.returned = {"messages"}
    /\ Len(call.returned.messages) = Len(call.sent) + 1
    /\ SubSeq(call.returned.messages, 1, Len(call.sent)) = call.sent
    /\ call.returned.messages[Len(call.returned.messages)] = agent_input.result

\* C19: for a question string and for a message list alike, invoke and
\* ainvoke send the agent's system prompt first and the caller's messages
\* after it in order, return exactly the messages sent with the model's
\* result appended, and the two calls send and return the same for the same
\* input and result.
C19_AgentInvocation ==
  agent_output # NotCalled =>
    /\ WellFormedCall(agent_output.invoke)
    /\ WellFormedCall(agent_output.ainvoke)
    /\ (agent_output.invoke # NotCalled /\ agent_output.ainvoke # NotCalled) =>
         agent_output.invoke = agent_output.ainvoke

\* C19 witness: both calls were made on a list of two messages, the model
\* answering with a tool call.
C19_Witness ==
  /\ agent_output # NotCalled
  /\ agent_output.invoke # NotCalled
  /\ agent_output.ainvoke # NotCalled
  /\ agent_input.input_data.kind = "dict"
  /\ Len(agent_input.input_data.messages) = 2
  /\ agent_input.input_data.messages[1] # agent_input.input_data.messages[2]
  /\ agent_input.result.tool_calls # <<>>
  /\ Len(agent_output.ainvoke.returned.messages) = 4

\* The request has its outcome: the Verifier's answer is in the state of a
\* run that completed, or the run has failed with the message of an error.
Terminal ==
  \/ pc = "done" /\ Populated("answer")
  \/ pc = "failed" /\ error \in ErrorMessages

\* C20: when every backend call in flight eventually completes or raises
\* and every task that can run is run, the request reaches its outcome and
\* keeps it, the endpoint answers, and the Retriever's join is always left.
C20_Termination ==
  /\ <>[]Terminal
  /\ <>(response # NoResponse)
  /\ (Gathering ~> ~Gathering)

\* C20 witness: the join was left by a failure while another task was still
\* waiting for its call, and the run ended failed.
C20_Witness ==
  /\ pc = "failed"
  /\ log[Len(log)] = <<"retriever", "raise">>
  /\ \E i, k \in TaskIds : tasks[i].st = "failed" /\ InFlight(k)

\* A retrieval call of task i was launched and has neither returned nor raised.
CallInFlight(i) == \E j \in 1..Len(tasks[i].results) : tasks[i].results[j] = Pending

\* C21: when the Retriever has failed and the error has left retrieval_node,
\* no task of the request is still waiting for its agent or its retrieval
\* calls, and no launched retrieval call is still pending.
C21_NoOrphanedCalls ==
  (pc = "failed" /\ log # <<>> /\ log[Len(log)] = <<"retriever", "raise">>) =>
    \A i \in TaskIds : ~InFlight(i) /\ ~CallInFlight(i)

\* C22: every sub-question the Planner wrote, and every query the Retriever
\* launched a task for, is a non-empty text.
C22_NonEmptySubQuestions ==
  /\ Populated("sub_questions") =>
       \A k \in 1..Len(state.sub_questions) : state.sub_questions[k] # <<>>
  /\ \A i \in TaskIds : tasks[i].q # <<>>

====
